---- MODULE Spec2Model ----
(***************************************************************************)
(* Model of the request dispatcher of server/src/main.rs: the route table  *)
(* built by routes!, the dispatcher closure returned by                    *)
(* make_req_dispatcher, its clones (one per connection), the handler       *)
(* instances they own and the response futures they hand back.             *)
(*                                                                         *)
(* A URI is a sequence of segments; a segment stands for the bytes given   *)
(* by SegBytes, so that paths are compared byte for byte as String is.     *)
(***************************************************************************)
EXTENDS Integers, Sequences, FiniteSets, TLC

VARIABLES route_list, pc, handlers, dispatchers, requests, invocations

vars == <<route_list, pc, handlers, dispatchers, requests, invocations>>

---------------------------------------------------------------------------
(* Bounds *)

MaxRoutes == 2
MaxUriLen == 3
MaxRequests == 2
MaxDispatchers == 2

---------------------------------------------------------------------------
(* Strings and their ordering *)

Segments == {"/", "networks", "Networks", "?"}

SegBytes(s) ==
    CASE s = "/" -> <<47>>
      [] s = "?" -> <<63>>
      [] s = "networks" -> <<110, 101, 116, 119, 111, 114, 107, 115>>
      [] s = "Networks" -> <<78, 101, 116, 119, 111, 114, 107, 115>>

RECURSIVE PathBytes(_)
PathBytes(p) ==
    IF p = <<>> THEN <<>> ELSE SegBytes(Head(p)) \o PathBytes(Tail(p))

Methods == {"GET", "POST", "DELETE", "BREW"}

\* Method::as_str
as_str(m) ==
    CASE m = "GET" -> <<71, 69, 84>>
      [] m = "POST" -> <<80, 79, 83, 84>>
      [] m = "DELETE" -> <<68, 69, 76, 69, 84, 69>>
      [] m = "BREW" -> <<66, 82, 69, 87>>

\* str::cmp: lexicographic on bytes
RECURSIVE CmpBytes(_, _)
CmpBytes(a, b) ==
    IF a = <<>> /\ b = <<>> THEN "Equal"
    ELSE IF a = <<>> THEN "Less"
    ELSE IF b = <<>> THEN "Greater"
    ELSE IF Head(a) < Head(b) THEN "Less"
    ELSE IF Head(a) > Head(b) THEN "Greater"
    ELSE CmpBytes(Tail(a), Tail(b))

HttpMethodCmpAny(m1, m2) == "Equal"

\* impl Ord for HttpMethod
HttpMethodCmp(m1, m2) == CmpBytes(as_str(m1), as_str(m2))

\* to_ascii_lowercase on one byte
FoldByte(b) == IF b >= 65 /\ b <= 90 THEN b + 32 ELSE b

RequestPathCmpNoCase(p1, p2) ==
    CmpBytes([i \in 1..Len(PathBytes(p1)) |-> FoldByte(PathBytes(p1)[i])],
             [i \in 1..Len(PathBytes(p2)) |-> FoldByte(PathBytes(p2)[i])])

\* derived Ord of RequestPath(String)
RequestPathCmp(p1, p2) == CmpBytes(PathBytes(p1), PathBytes(p2))

\* Ord of the tuple (HttpMethod, RequestPath)
KeyCmp(k1, k2) ==
    IF HttpMethodCmp(k1[1], k2[1]) # "Equal"
    THEN HttpMethodCmp(k1[1], k2[1])
    ELSE RequestPathCmp(k1[2], k2[2])

---------------------------------------------------------------------------
(* BTreeMap<(HttpMethod, RequestPath), RequestHandler>, as a function from *)
(* keys to handler instances                                               *)

EmptyMap == <<>>

BTreeInsertKeepFirst(t, k, v) ==
    IF \E x \in DOMAIN t : KeyCmp(x, k) = "Equal"
    THEN t
    ELSE [x \in DOMAIN t \cup {k} |-> IF x = k THEN v ELSE t[x]]

\* BTreeMap::insert: an equal key keeps its place and takes the new value
BTreeInsert(t, k, v) ==
    IF \E x \in DOMAIN t : KeyCmp(x, k) = "Equal"
    THEN [x \in DOMAIN t |-> IF KeyCmp(x, k) = "Equal" THEN v ELSE t[x]]
    ELSE [x \in DOMAIN t \cup {k} |-> IF x = k THEN v ELSE t[x]]

\* BTreeMap::get_mut, as an Option: <<>> is None, <<v>> is Some(v)
BTreeGetMut(t, k) ==
    LET eq == {x \in DOMAIN t : KeyCmp(x, k) = "Equal"}
    IN  IF eq = {} THEN <<>> ELSE <<t[CHOOSE x \in eq : TRUE]>>

BTreeRemoved(t, k) ==
    [x \in {y \in DOMAIN t : KeyCmp(y, k) # "Equal"} |-> t[x]]

\* the map after get_mut and the call through the borrowed handler
BTreeAfterGetMut(t, k) == t

UnwrapOrAlways(opt, dflt) == dflt

\* Option::unwrap_or
unwrap_or(opt, dflt) == IF opt = <<>> THEN dflt ELSE opt[1]

---------------------------------------------------------------------------
(* Requests *)

Uris ==
    {u \in UNION {[1..k -> Segments] : k \in 0..MaxUriLen} :
        u = <<>> \/ u[1] = "/"}

Bodies == {"", "payload"}

Requests == [method : Methods, uri : Uris, body : Bodies]

\* the requests of the serving specification
ServeRequests ==
    {r \in Requests : /\ r.body = ""
                      /\ \/ /\ r.method \in {"GET", "POST", "DELETE"}
                            /\ r.uri = <<"/", "networks">>
                         \/ /\ r.method = "GET"
                            /\ r.uri = <<"/">>}

UriWhole(u) == u

\* Uri::path: the part of the request target before the query
RECURSIVE UriPath(_)
UriPath(u) ==
    IF u = <<>> \/ Head(u) = "?" THEN <<>>
    ELSE <<Head(u)>> \o UriPath(Tail(u))

\* the key of the closure of make_req_dispatcher
RouteKey(req) == <<req.method, UriPath(req.uri)>>

---------------------------------------------------------------------------
(* Handlers *)

JsonHeaders(len) ==
    {<<"content-length", len>>, <<"content-type", "application/json">>}

\* what the future returned by a handler closure resolves to
HandlerCall(fn, req) ==
    CASE fn = "on_get_networks" ->
            <<"Ok", [status |-> 200, headers |-> JsonHeaders("29"),
                     body |-> "{ \"greeting\": \"Hola amigo!\" }"]>>
      [] fn = "on_create_network" ->
            <<"Ok", [status |-> 200, headers |-> JsonHeaders("65"),
                     body |-> "{\n            \"Id\": \"12345\",\n            \"Warnings\": \"\"\n        }"]>>
      [] fn = "default_handler" ->
            <<"Ok", [status |-> 200, headers |-> {}, body |-> "boo"]>>
      [] fn = "on_error" ->
            <<"Err", "HyperError">>

\* the handlers a route list registers: one whose future resolves to a
\* response, and one whose future fails with the Error of ResponseFuture
RegHandlers == {"on_get_networks", "on_error"}

RegMethods == {"GET", "POST"}

RegPaths == {<<"/", "networks">>}

\* the argument lists of routes!: one or more (method, path, handler)
RouteLists ==
    UNION {[1..k -> RegMethods \X RegPaths \X RegHandlers] : k \in 1..MaxRoutes}

\* the routes! call of main
MainRoutes ==
    << <<"GET", <<"/", "networks">>, "on_get_networks">>,
       <<"POST", <<"/", "networks">>, "on_create_network">> >>

\* routes!: btreemap! inserts the entries in the order listed; entry i is
\* the boxed handler instance i
RECURSIVE Routes(_, _)
Routes(list, n) ==
    IF n = 0 THEN EmptyMap
    ELSE BTreeInsert(Routes(list, n - 1), <<list[n][1], list[n][2]>>, n)

---------------------------------------------------------------------------
(* The dispatcher closure and its clones *)

\* the handler instances a dispatcher closure owns
Owned(disp) ==
    {disp.dispatch_table[k] : k \in DOMAIN disp.dispatch_table}
        \cup {disp.default_handler}

Rank(x, ids) == Cardinality({y \in ids : y <= x})

CloneBoxShared(x, ids, base) == x

\* objekt::clone_box on a boxed handler: a new instance of the same closure
CloneBox(x, ids, base) == base + Rank(x, ids)

\* Clone of the closure: its captured table and default handler are cloned
CloneClosure(disp, base) ==
    [dispatch_table |->
        [k \in DOMAIN disp.dispatch_table |->
            CloneBox(disp.dispatch_table[k], Owned(disp), base)],
     default_handler |-> CloneBox(disp.default_handler, Owned(disp), base)]

\* the heap after the clone: one new instance per owned instance
ClonedHandlers(disp, heap) ==
    heap \o [i \in 1..Cardinality(Owned(disp)) |->
                heap[CHOOSE x \in Owned(disp) : Rank(x, Owned(disp)) = i]]

InvokeTwice(log, n, handler, fut) ==
    Append(Append(log, [request |-> n, handler |-> handler, future |-> fut]),
           [request |-> n, handler |-> handler, future |-> fut])

\* handler.call(req): one call of the selected handler instance
Invoke(log, n, handler, fut) ==
    Append(log, [request |-> n, handler |-> handler, future |-> fut])

BoxRecovered(fut) ==
    IF fut[1] = "Err"
    THEN <<"Ok", [status |-> 500, headers |-> {}, body |-> ""]>>
    ELSE fut

\* Box::new(handler.call(req)): the future handed back to the caller
BoxFuture(fut) == fut

ReadyInOrder(reqs, i) ==
    /\ reqs[i].state = "pending"
    /\ \A j \in 1..(i - 1) : reqs[j].state = "resolved"

\* a returned future borrows nothing of the dispatcher or of other futures
Ready(reqs, i) == reqs[i].state = "pending"

---------------------------------------------------------------------------
(* Actions *)

\* main: routes!, the default handler, make_req_dispatcher
Startup ==
    /\ pc = "main"
    /\ pc' = "serving"
    /\ handlers' = [i \in 1..(Len(route_list) + 1) |->
                      IF i <= Len(route_list) THEN route_list[i][3]
                      ELSE "default_handler"]
    /\ dispatchers' = << [dispatch_table |-> Routes(route_list, Len(route_list)),
                          default_handler |-> Len(route_list) + 1] >>
    /\ UNCHANGED <<route_list, requests, invocations>>

\* the transport takes a clone of the dispatcher for a new connection
CloneDispatcher(d) ==
    /\ pc = "serving"
    /\ d \in DOMAIN dispatchers
    /\ Len(dispatchers) < MaxDispatchers
    /\ dispatchers' = Append(dispatchers, CloneClosure(dispatchers[d], Len(handlers)))
    /\ handlers' = ClonedHandlers(dispatchers[d], handlers)
    /\ UNCHANGED <<route_list, pc, requests, invocations>>

\* one call of the closure returned by make_req_dispatcher
Dispatch(d, req) ==
    /\ pc = "serving"
    /\ d \in DOMAIN dispatchers
    /\ LET key == RouteKey(req)
           table == dispatchers[d].dispatch_table
           handler == unwrap_or(BTreeGetMut(table, key),
                                dispatchers[d].default_handler)
           fut == HandlerCall(handlers[handler], req)
           n == Len(requests) + 1
       IN  /\ invocations' = Invoke(invocations, n, handler, fut)
           /\ requests' = Append(requests,
                                 [req |-> req, disp |-> d, state |-> "pending",
                                  future |-> BoxFuture(fut), observed |-> <<>>])
           /\ dispatchers' = [dispatchers EXCEPT
                                 ![d].dispatch_table = BTreeAfterGetMut(table, key)]
    /\ UNCHANGED <<route_list, pc, handlers>>

\* the runtime polls a returned future to completion
Resolve(i) ==
    /\ i \in DOMAIN requests
    /\ Ready(requests, i)
    /\ requests' = [requests EXCEPT ![i].state = "resolved",
                                     ![i].observed = requests[i].future]
    /\ UNCHANGED <<route_list, pc, handlers, dispatchers, invocations>>

---------------------------------------------------------------------------
(* The server of main, with its connections and requests in flight *)

InitCommon ==
    /\ pc = "main"
    /\ handlers = <<>>
    /\ dispatchers = <<>>
    /\ requests = <<>>
    /\ invocations = <<>>

Init == route_list = MainRoutes /\ InitCommon

Next ==
    \/ Startup
    \/ \E d \in 1..MaxDispatchers : CloneDispatcher(d)
    \/ \E d \in 1..MaxDispatchers, req \in ServeRequests :
          Len(requests) < MaxRequests /\ Dispatch(d, req)
    \/ \E i \in 1..MaxRequests : Resolve(i)

Spec == Init /\ [][Next]_vars

(* make_req_dispatcher over any route list, applied to one request *)

InitRoutes == route_list \in RouteLists /\ InitCommon

NextRoutes ==
    \/ Startup
    \/ \E req \in Requests : requests = <<>> /\ Dispatch(1, req)
    \/ Resolve(1)

SpecRoutes == InitRoutes /\ [][NextRoutes]_vars

---------------------------------------------------------------------------
(* Vocabulary of the properties *)

Min(S) == CHOOSE x \in S : \A y \in S : x <= y

\* the path component of a request target, read off its text
PathPart(u) ==
    LET qs == {i \in 1..Len(u) : u[i] = "?"}
    IN  IF qs = {} THEN u ELSE SubSeq(u, 1, Min(qs) - 1)

\* the (method, path) pair of request i and the closure that received it
PairOf(i) == <<requests[i].req.method, PathPart(requests[i].req.uri)>>
TableOf(i) == dispatchers[requests[i].disp].dispatch_table
DefaultOf(i) == dispatchers[requests[i].disp].default_handler

\* the handler instances called on behalf of request i
Called(i) ==
    {invocations[j].handler :
        j \in {x \in DOMAIN invocations : invocations[x].request = i}}

Networks == <<"/", "networks">>

---------------------------------------------------------------------------
(* Routing, under SpecRoutes *)

\* C1: a request whose (method, path) is registered is handed to the
\* handler instance registered for that pair, which is the boxed handler of
\* a routes! entry with that method and path, and to no other table entry
\* and not to the default handler.
C1_RegisteredRouted ==
    \A i \in DOMAIN requests :
        PairOf(i) \in DOMAIN TableOf(i) =>
            /\ Called(i) = {TableOf(i)[PairOf(i)]}
            /\ DefaultOf(i) \notin Called(i)
            /\ \A k \in DOMAIN TableOf(i) \ {PairOf(i)} :
                   TableOf(i)[k] \notin Called(i)
            /\ \A h \in Called(i) :
                   /\ h \in DOMAIN route_list
                   /\ <<route_list[h][1], route_list[h][2]>> = PairOf(i)
                   /\ handlers[h] = route_list[h][3]

C1_Witness ==
    \E i \in DOMAIN requests :
        /\ PairOf(i) = <<"POST", Networks>>
        /\ PairOf(i) \in DOMAIN TableOf(i)
        /\ Cardinality(DOMAIN TableOf(i)) = 2
        /\ requests[i].state = "resolved"

\* C2: a request whose (method, path) is not in the table, whatever the
\* method and path (empty path and unknown verb included), is handed to
\* the default handler, and the dispatcher accepts it: a request with an
\* unknown or unregistered verb, an empty or unregistered path can be
\* dispatched, and the returned future is the default handler's.
C2_UnmatchedToDefault ==
    /\ \A i \in DOMAIN requests :
          PairOf(i) \notin DOMAIN TableOf(i) =>
              /\ Called(i) = {DefaultOf(i)}
              /\ handlers[DefaultOf(i)] = "default_handler"
              /\ requests[i].future[1] = "Ok"
              /\ requests[i].future[2].body = "boo"
    /\ (pc = "serving" /\ requests = <<>>) =>
          \A m \in {"BREW", "DELETE"}, u \in {<<>>, <<"/">>, Networks} :
              ENABLED Dispatch(1, [method |-> m, uri |-> u, body |-> ""])

C2_Witness ==
    /\ \E i \in DOMAIN requests :
          /\ requests[i].req.method = "BREW"
          /\ requests[i].req.uri = Networks
          /\ <<"GET", Networks>> \in DOMAIN TableOf(i)
          /\ Called(i) = {DefaultOf(i)}
    /\ \E i \in DOMAIN requests :
          /\ requests[i].state = "resolved"

\* the entries of the route list that name the pair k
EntriesFor(k) ==
    {a \in DOMAIN route_list : <<route_list[a][1], route_list[a][2]>> = k}

Max(S) == CHOOSE x \in S : \A y \in S : x >= y

\* C3: when a (method, path) pair is listed twice with different handlers,
\* the built table holds the pair once, bound to the later entry, and a
\* request for the pair reaches the later handler only.
C3_LastWriteWins ==
    pc = "serving" =>
        \A a \in DOMAIN route_list, b \in DOMAIN route_list :
            LET k == <<route_list[b][1], route_list[b][2]>>
            IN  (a < b /\ a \in EntriesFor(k) /\ b = Max(EntriesFor(k))
                    /\ route_list[a][3] # route_list[b][3]) =>
                    /\ k \in DOMAIN dispatchers[1].dispatch_table
                    /\ Cardinality(DOMAIN dispatchers[1].dispatch_table)
                         = Cardinality({<<route_list[x][1], route_list[x][2]>> :
                                           x \in DOMAIN route_list})
                    /\ dispatchers[1].dispatch_table[k] = b
                    /\ handlers[b] = route_list[b][3]
                    /\ \A i \in DOMAIN requests :
                           PairOf(i) = k =>
                               /\ Called(i) = {b}
                               /\ requests[i].future
                                    = HandlerCall(route_list[b][3], requests[i].req)

C3_Witness ==
    /\ Len(route_list) = 2
    /\ EntriesFor(<<"GET", Networks>>) = {1, 2}
    /\ route_list[1][3] = "on_error"
    /\ route_list[2][3] = "on_get_networks"
    /\ \E i \in DOMAIN requests :
          /\ PairOf(i) = <<"GET", Networks>>
          /\ requests[i].state = "resolved"
          /\ requests[i].observed[1] = "Ok"
          /\ requests[i].observed[2].headers = JsonHeaders("29")

\* C5: with GET /networks registered and nothing registered for the path
\* asked for, a GET for /networks/ or for /Networks is handed to the
\* default handler.
C5_ExactPath ==
    \A i \in DOMAIN requests :
        (/\ requests[i].req.method = "GET"
         /\ PathPart(requests[i].req.uri)
               \in {<<"/", "networks", "/">>, <<"/", "Networks">>}
         /\ <<"GET", Networks>> \in DOMAIN TableOf(i)
         /\ \A k \in DOMAIN TableOf(i) : k[2] = Networks) =>
            /\ Called(i) = {DefaultOf(i)}
            /\ requests[i].future = HandlerCall("default_handler", requests[i].req)

C5_Witness ==
    \E i \in DOMAIN requests :
        /\ requests[i].req.method = "GET"
        /\ requests[i].req.uri = <<"/", "Networks">>
        /\ <<"GET", Networks>> \in DOMAIN TableOf(i)
        /\ requests[i].state = "resolved"
        /\ requests[i].observed[2].body = "boo"

\* C9: the caller observes exactly what the invoked handler's future
\* resolves to, a response or an error.
C9_ResultUnchanged ==
    \A i \in DOMAIN requests :
        \A j \in DOMAIN invocations :
            invocations[j].request = i =>
                /\ requests[i].future = invocations[j].future
                /\ requests[i].state = "resolved" =>
                      requests[i].observed = invocations[j].future

C9_Witness ==
    \E i \in DOMAIN requests :
        /\ requests[i].state = "resolved"
        /\ requests[i].observed = <<"Err", "HyperError">>
        /\ handlers[CHOOSE h \in Called(i) : TRUE] = "on_error"

\* C10: the handler a request reaches is determined by its method and the
\* path part of its URI alone: a request with a query string or a body
\* reaches the handler that the bare (method, path) pair selects.
C10_OnlyMethodAndPath ==
    \A i \in DOMAIN requests :
        (requests[i].req.uri # PathPart(requests[i].req.uri)
            \/ requests[i].req.body # "") =>
            Called(i) = {IF PairOf(i) \in DOMAIN TableOf(i)
                         THEN TableOf(i)[PairOf(i)]
                         ELSE DefaultOf(i)}

C10_Witness ==
    \E i \in DOMAIN requests :
        /\ requests[i].req.method = "GET"
        /\ requests[i].req.uri = <<"/", "networks", "?">>
        /\ requests[i].req.body = "payload"
        /\ <<"GET", Networks>> \in DOMAIN TableOf(i)
        /\ Called(i) = {TableOf(i)[<<"GET", Networks>>]}

---------------------------------------------------------------------------
(* The serving dispatcher and its clones, under Spec *)

C6_ExactlyOneCall ==
    [][Len(requests') > Len(requests) =>
          /\ Len(requests') = Len(requests) + 1
          /\ Len(invocations') = Len(invocations) + 1
          /\ invocations'[Len(invocations')].request = Len(requests')
          /\ SubSeq(invocations', 1, Len(invocations)) = invocations
          /\ SubSeq(requests', 1, Len(requests)) = requests
          /\ dispatchers' = dispatchers
          /\ handlers' = handlers
          /\ route_list' = route_list
          /\ pc' = pc]_vars

C6_Witness ==
    /\ Len(requests) = 2
    /\ Len(invocations) = 2
    /\ PairOf(1) \in DOMAIN TableOf(1)
    /\ PairOf(2) \notin DOMAIN TableOf(2)
    /\ invocations[1].request = 1
    /\ invocations[2].request = 2

\* C7: once the server is serving, no step changes a dispatcher's table
\* (its keys and the handler of each key), its default handler, or an
\* existing handler instance.
C7_TableReadOnly ==
    [][pc = "serving" =>
          /\ \A d \in DOMAIN dispatchers :
                /\ d \in DOMAIN dispatchers'
                /\ dispatchers'[d] = dispatchers[d]
          /\ \A h \in DOMAIN handlers :
                /\ h \in DOMAIN handlers'
                /\ handlers'[h] = handlers[h]
          /\ route_list' = route_list]_vars

C7_Witness ==
    /\ Len(dispatchers) = 2
    /\ \A d \in DOMAIN dispatchers :
          DOMAIN dispatchers[d].dispatch_table
              = {<<"GET", Networks>>, <<"POST", Networks>>}
    /\ \E i \in DOMAIN requests, j \in DOMAIN requests :
          /\ requests[i].disp = 1
          /\ requests[j].disp = 2
          /\ PairOf(i) \in DOMAIN TableOf(i)
          /\ PairOf(j) \notin DOMAIN TableOf(j)
          /\ requests[i].state = "resolved"
          /\ requests[j].state = "resolved"

====
